---- MODULE Spec2Model ----
(***************************************************************************)
(* A model of the dogtor veterinary-clinic API (src/dogtor/api/views.py,   *)
(* src/dogtor/api/models.py): the bearer-token decorator, signup and       *)
(* login, and the Owner / Pet / Species handlers over the relational       *)
(* store.                                                                  *)
(*                                                                         *)
(* Conventions.                                                            *)
(*  - A table is a set of rows; a row is a record of its columns.          *)
(*  - A string that the code lower-cases, prefixes or splits is a sequence *)
(*    of symbols; a string that is only compared for equality is a TLA+    *)
(*    string.                                                              *)
(*  - A JSON payload is a function whose DOMAIN is the keys it carries, so *)
(*    `field not in data` is  field \notin DOMAIN data.                    *)
(*  - Time is counted in ticks, TicksPerSec to the second: the clock the   *)
(*    code reads (datetime.utcnow) is finer than the whole seconds a token *)
(*    carries.                                                             *)
(*  - resp is the last request served and the response it got.             *)
(***************************************************************************)
EXTENDS Integers, Sequences, FiniteSets, TLC

VARIABLES user, owner, species, pet, now, issued, pc, resp

vars == <<user, owner, species, pet, now, issued, pc, resp>>
store == <<user, owner, species, pet>>

(***************************************************************************)
(* Bounds of the model.                                                    *)
(***************************************************************************)
TicksPerSec == 2
Window == 1
MaxTokens == 1
MaxUsers == 2
MaxId == 2

(***************************************************************************)
(* Program constants.                                                      *)
(***************************************************************************)
ExpMinutes == 30
NULL == 0

LifetimeTicks == ExpMinutes * 60 * TicksPerSec

\* The instants at which the clock is read: a window after the start and a
\* window around one token lifetime later.
TimePoints == (0 .. Window) \cup (LifetimeTicks .. LifetimeTicks + Window)

(***************************************************************************)
(* Generic helpers.                                                        *)
(***************************************************************************)
Max(S) == CHOOSE x \in S : \A y \in S : y <= x

\* The id the store assigns to a new row of tbl.
NextId(tbl) == IF tbl = {} THEN 1 ELSE Max({r.id : r \in tbl}) + 1

\* dict.get(key): the set of values under key (empty for Python's None).
Get(data, key) == IF key \in DOMAIN data THEN {data[key]} ELSE {}

\* Python truthiness of dict.get(key) for a string value.
Truthy(data, key) == key \in DOMAIN data /\ data[key] # ""

(***************************************************************************)
(* Strings as sequences of symbols.                                        *)
(***************************************************************************)
Ch(c) == [ch |-> c]
Str(cs) == [i \in 1 .. Len(cs) |-> Ch(cs[i])]

LowerChar(c) ==
    CASE c = "R" -> "r"
      [] c = "E" -> "e"
      [] c = "X" -> "x"
      [] c = "M" -> "m"
      [] c = "C" -> "c"
      [] c = "A" -> "a"
      [] c = "T" -> "t"
      [] OTHER -> c

\* db.func.lower / str.lower
lower(s) == [i \in 1 .. Len(s) |-> IF "ch" \in DOMAIN s[i] THEN Ch(LowerChar(s[i].ch)) ELSE s[i]]

\* str.startswith
startswith(s, prefix) ==
    /\ Len(s) >= Len(prefix)
    /\ SubSeq(s, 1, Len(prefix)) = prefix

\* str.split(sep) for a one-symbol separator: the pieces between separators,
\* empty pieces kept.
RECURSIVE split(_, _)
split(s, sep) ==
    IF \A i \in 1 .. Len(s) : s[i] # sep
    THEN <<s>>
    ELSE LET k == CHOOSE i \in 1 .. Len(s) :
                      /\ s[i] = sep
                      /\ \A j \in 1 .. i - 1 : s[j] # sep
         IN <<SubSeq(s, 1, k - 1)>> \o split(SubSeq(s, k + 1, Len(s)), sep)

(***************************************************************************)
(* Token Service: PyJWT's encode and decode with HS256.                    *)
(***************************************************************************)
SECRET_KEY == "Config.SECRET_KEY"

\* The HMAC of a payload under a key: equal exactly when key and payload are.
Sign(key, sub, exp) == <<key, sub, exp>>

\* jwt.encode: a datetime "exp" is written as whole seconds since the epoch
\* (timegm(utctimetuple())), the sub-second part dropped.
jwt_encode(sub, expTicks, key) ==
    LET exp == expTicks \div TicksPerSec
    IN [sub |-> sub, exp |-> exp, sig |-> Sign(key, sub, exp)]

\* A decoder that still accepts a token at the very instant of its exp
\* (exp < now instead of exp <= now); the expiry property tells the two apart.
jwt_decodeMutLate(tok, key, t) ==
    IF tok.sig # Sign(key, tok.sub, tok.exp) THEN "InvalidTokenError"
    ELSE IF tok.exp * TicksPerSec < t THEN "ExpiredSignatureError"
    ELSE "ok"

\* jwt.decode: the signature is verified first, then the expiry: the token is
\* expired when exp <= now.
jwt_decode(tok, key, t) ==
    IF tok.sig # Sign(key, tok.sub, tok.exp) THEN "InvalidTokenError"
    ELSE IF tok.exp * TicksPerSec <= t THEN "ExpiredSignatureError"
    ELSE "ok"

\* A token as it travels in a header: one symbol, no space inside.
Jwt(tok) == [jwt |-> tok]

(***************************************************************************)
(* werkzeug.security                                                       *)
(***************************************************************************)
Salts == {"s1"}

generate_password_hash(password, salt) == [salt |-> salt, digest |-> <<salt, password>>]

check_password_hash(pwhash, password) == pwhash.digest = <<pwhash.salt, password>>

(***************************************************************************)
(* Responses.                                                              *)
(***************************************************************************)
\* A response: the status, the message of a {"detail": ...} body ("" when
\* the body is not one), and what else the body carries.  ran: the wrapped
\* handler ran; read: the request queried the store.
Reply(op, req, status, detail, body, ran, read) ==
    [op |-> op, req |-> req, status |-> status, detail |-> detail,
     body |-> body, ran |-> ran, read |-> read, at |-> now]

(***************************************************************************)
(* token_required                                                          *)
(***************************************************************************)
prefix == Str(<<"Bearer", " ">>)

\* A decoding that verifies the signature and ignores the expiry.
DecodeMutNoExpiry(token, t) ==
    IF ~(Len(token) = 1 /\ "jwt" \in DOMAIN token[1]) THEN "InvalidTokenError"
    ELSE IF jwt_decode(token[1].jwt, SECRET_KEY, t) = "InvalidTokenError"
         THEN "InvalidTokenError" ELSE "ok"

\* jwt.decode, with a piece that is not one well-formed token failing to
\* decode.
Decode(token, t) ==
    IF ~(Len(token) = 1 /\ "jwt" \in DOMAIN token[1]) THEN "InvalidTokenError"
    ELSE jwt_decode(token[1].jwt, SECRET_KEY, t)

token_required(headers) ==
    LET fail(msg) == [user |-> {}, ok |-> FALSE, status |-> 401,
                      detail |-> msg, read |-> FALSE]
    IN
    IF "Authorization" \notin DOMAIN headers \/ headers.Authorization = <<>>
    THEN fail("Missing \"Authorization\" header")
    ELSE LET authorization == headers.Authorization IN
    IF ~startswith(authorization, prefix)
    THEN fail("Invalid token prefix")
    ELSE LET token == split(authorization, Ch(" "))[2] IN
    IF token = <<>>
    THEN fail("Missing token")
    ELSE LET verdict == Decode(token, now) IN
    IF verdict = "ExpiredSignatureError" THEN fail("Token expired")
    ELSE IF verdict = "InvalidTokenError" THEN fail("Invalid token")
    ELSE LET found == {u \in user : u.id = token[1].jwt.sub} IN
    IF Cardinality(found) # 1
    THEN \* scalar_one() raises: the request ends in a server error
         [user |-> {}, ok |-> FALSE, status |-> 500,
          detail |-> "NoResultFound", read |-> TRUE]
    ELSE [user |-> found, ok |-> TRUE, status |-> 200,
          detail |-> "", read |-> TRUE]

\* The decorator returned without calling the handler.
Denied(op, req, a) ==
    /\ resp' = Reply(op, req, a.status, a.detail, <<>>, FALSE, a.read)
    /\ UNCHANGED <<store, now, issued, pc>>

(***************************************************************************)
(* profile                                                                 *)
(***************************************************************************)
profile(req) ==
    LET a == token_required(req.headers) IN
    IF ~a.ok THEN Denied("profile", req, a)
    ELSE LET u == CHOOSE u \in a.user : TRUE IN
         /\ resp' = Reply("profile", req, 200, "",
                          [first_name |-> u.first_name,
                           last_name |-> u.last_name,
                           email |-> u.email], TRUE, TRUE)
         /\ UNCHANGED <<store, now, issued, pc>>

(***************************************************************************)
(* signup                                                                  *)
(***************************************************************************)
\* A user table without the UNIQUE constraint on email.
UserInsertOkMutNoUnique(tbl, row) == row.first_name # {}

\* The constraints of the user table on insert: first_name NOT NULL, email
\* UNIQUE.
UserInsertOk(tbl, row) ==
    /\ row.first_name # {}
    /\ \A u \in tbl : u.email # row.email

UserRow(tbl, data, salt) ==
    [id |-> NextId(tbl),
     password |-> generate_password_hash(data.password, salt),
     first_name |-> Get(data, "first_name"),
     last_name |-> Get(data, "last_name"),
     email |-> data.email]

\* Lines 338-349: the email is required and must not be registered.
signup_check(data) ==
    IF ~Truthy(data, "email") THEN [status |-> 400, detail |-> "email is required", read |-> FALSE]
    ELSE IF \E u \in user : u.email = data.email
    THEN [status |-> 400, detail |-> "email already taken", read |-> TRUE]
    ELSE [status |-> 0, detail |-> "", read |-> TRUE]

\* Lines 351-361: hash the password, insert the row, commit.
signup_insert(data, salt) ==
    IF "password" \notin DOMAIN data
    THEN \* generate_password_hash(None) raises
         [status |-> 500, detail |-> "AttributeError", rows |-> {}]
    ELSE LET row == UserRow(user, data, salt) IN
         IF ~UserInsertOk(user, row)
         THEN [status |-> 500, detail |-> "IntegrityError", rows |-> {}]
         ELSE [status |-> 201, detail |-> "user created successfully", rows |-> {row}]

signup(req) ==
    LET c == signup_check(req.data) IN
    IF c.status # 0
    THEN /\ resp' = Reply("signup", req, c.status, c.detail, <<>>, TRUE, c.read)
         /\ UNCHANGED <<store, now, issued, pc>>
    ELSE \E salt \in Salts :
         LET r == signup_insert(req.data, salt) IN
         /\ Cardinality(user \cup r.rows) <= MaxUsers
         /\ user' = user \cup r.rows
         /\ resp' = Reply("signup", req, r.status, r.detail, <<>>, TRUE, TRUE)
         /\ UNCHANGED <<owner, species, pet, now, issued, pc>>

\* Concurrent signups: a request runs its existence check, and later its
\* insert; other requests may run in between.
signup_begin(p, req) ==
    LET c == signup_check(req.data) IN
    /\ pc[p].at # "insert"
    /\ pc' = [pc EXCEPT ![p] = IF c.status # 0
                               THEN [req |-> req, status |-> c.status, at |-> "done"]
                               ELSE [req |-> req, status |-> 0, at |-> "insert"]]
    /\ resp' = IF c.status # 0
               THEN Reply("signup", req, c.status, c.detail, <<>>, TRUE, c.read)
               ELSE resp
    /\ UNCHANGED <<store, now, issued>>

signup_commit(p) ==
    /\ pc[p].at = "insert"
    /\ \E salt \in Salts :
         LET r == signup_insert(pc[p].req.data, salt) IN
         /\ Cardinality(user \cup r.rows) <= MaxUsers
         /\ user' = user \cup r.rows
         /\ pc' = [pc EXCEPT ![p] = [req |-> pc[p].req, status |-> r.status, at |-> "done"]]
         /\ resp' = Reply("signup", pc[p].req, r.status, r.detail, <<>>, TRUE, TRUE)
    /\ UNCHANGED <<owner, species, pet, now, issued>>

(***************************************************************************)
(* login                                                                   *)
(***************************************************************************)
\* A login that tells an unknown email from a wrong password.
login_failureMutLeaky(found) ==
    IF found = {} THEN "unknown email" ELSE "invalid email or password"

\* The detail of the 401 of login: one message for both causes.
login_failure(found) == "invalid email or password"

login(req) ==
    LET data == req.data IN
    IF ~Truthy(data, "email") \/ ~Truthy(data, "password")
    THEN /\ resp' = Reply("login", req, 400, "missing email or password", <<>>, TRUE, FALSE)
         /\ UNCHANGED <<store, now, issued, pc>>
    ELSE LET found == {u \in user : u.email = data.email} IN
    IF found = {} \/ \E u \in found : ~check_password_hash(u.password, data.password)
    THEN /\ resp' = Reply("login", req, 401, login_failure(found), <<>>, TRUE, TRUE)
         /\ UNCHANGED <<store, now, issued, pc>>
    ELSE LET u == CHOOSE u \in found : TRUE
             token == jwt_encode(u.id, now + LifetimeTicks, SECRET_KEY)
             handed == [at |-> now, token |-> token]
         IN /\ Cardinality(issued \cup {handed}) <= MaxTokens
            /\ issued' = issued \cup {handed}
            /\ resp' = Reply("login", req, 200, "", [token |-> token], TRUE, TRUE)
            /\ UNCHANGED <<store, now, pc>>

(***************************************************************************)
(* The relational store behind the Owner, Species and Pet models.          *)
(***************************************************************************)
\* for key, value in data.items(): setattr(row, key, value), for the keys
\* that are columns.
SetAttrs(row, data) ==
    [c \in DOMAIN row |-> IF c \in DOMAIN data THEN data[c] ELSE row[c]]

\* The first of `fields` that `data` lacks, as a set (empty when none is
\* missing).
FirstMissing(data, fields) ==
    LET miss == {i \in 1 .. Len(fields) : fields[i] \notin DOMAIN data}
    IN IF miss = {} THEN {} ELSE {fields[CHOOSE i \in miss : \A j \in miss : i <= j]}

\* PRIMARY KEY: no two rows of a table share an id.
PrimaryKeyOk(tbl) == \A r1, r2 \in tbl : r1.id = r2.id => r1 = r2

\* Species.name UNIQUE, as the column's default collation compares: exactly.
SpeciesUniqueOk(tbl) == \A r1, r2 \in tbl : r1.name = r2.name => r1 = r2

\* Owner.email UNIQUE.
OwnerUniqueOk(tbl) == \A r1, r2 \in tbl : r1.email = r2.email => r1 = r2

\* The foreign keys of pet (db.ForeignKey), enforced as declared: the store
\* refuses a pet whose owner_id or species_id names no row.  A run in which
\* no request is refused for a foreign key is also a run of a store that
\* does not enforce them (SQLite without the foreign_keys pragma).
ForeignKeysOk(pets, owners, spp) ==
    \A p \in pets :
        /\ p.owner_id = NULL \/ \E o \in owners : o.id = p.owner_id
        /\ p.species_id = NULL \/ \E sp \in spp : sp.id = p.species_id

\* Deleting a parent row: the ORM first sets the children's foreign key to
\* NULL.
NullifySpecies(pets, id) ==
    {IF p.species_id = id THEN [p EXCEPT !.species_id = NULL] ELSE p : p \in pets}

NullifyOwner(pets, id) ==
    {IF p.owner_id = id THEN [p EXCEPT !.owner_id = NULL] ELSE p : p \in pets}

(***************************************************************************)
(* to_dict                                                                 *)
(***************************************************************************)
Species_to_dict(sp) == [id |-> sp.id, name |-> sp.name]

\* Pet.to_dict reads self.species.name: it raises when the pet has no
\* species row.  The set of results: empty when it raises.
Pet_to_dict(p, spp) ==
    {[species |-> sp.name, id |-> p.id, name |-> p.name,
      owner_id |-> p.owner_id, age |-> p.age] : sp \in {x \in spp : x.id = p.species_id}}

\* Owner.to_dict nests the owner's pets.
Owner_to_dict(o, pets, spp) ==
    LET mine == {p \in pets : p.owner_id = o.id} IN
    IF \E p \in mine : Pet_to_dict(p, spp) = {} THEN {}
    ELSE {[id |-> o.id, first_name |-> o.first_name, last_name |-> o.last_name,
           email |-> o.email, pets |-> UNION {Pet_to_dict(p, spp) : p \in mine},
           phone |-> o.phone, mobile |-> o.mobile]}

\* The response of a handler that returns dicts: 500 when to_dict raised.
Serialized(op, req, status, dicts, raised) ==
    IF raised
    THEN Reply(op, req, 500, "AttributeError", <<>>, TRUE, TRUE)
    ELSE Reply(op, req, status, "", dicts, TRUE, TRUE)

\* A handler's response that leaves the store as it is.
Answer(op, req, status, detail, body) ==
    /\ resp' = Reply(op, req, status, detail, body, TRUE, TRUE)
    /\ UNCHANGED <<store, now, issued, pc>>

(***************************************************************************)
(* Pets                                                                    *)
(***************************************************************************)
pet_required == <<"name", "owner_id", "age", "species_id">>

get_pets(req) ==
    LET a == token_required(req.headers) IN
    IF ~a.ok THEN Denied("get_pets", req, a)
    ELSE /\ resp' = Serialized("get_pets", req, 200,
                               UNION {Pet_to_dict(p, species) : p \in pet},
                               \E p \in pet : Pet_to_dict(p, species) = {})
         /\ UNCHANGED <<store, now, issued, pc>>

get_pet(req) ==
    LET a == token_required(req.headers)
        found == {p \in pet : p.id = req.id}
    IN
    IF ~a.ok THEN Denied("get_pet", req, a)
    ELSE IF found = {} THEN Answer("get_pet", req, 404, "Pet not found", <<>>)
    ELSE /\ resp' = Serialized("get_pet", req, 200,
                               UNION {Pet_to_dict(p, species) : p \in found},
                               \E p \in found : Pet_to_dict(p, species) = {})
         /\ UNCHANGED <<store, now, issued, pc>>

\* Lines 115-120: a pet with the same lower-cased name, owner and species.
PetExists(pets, name, owner_id, species_id) ==
    \E p \in pets : /\ lower(p.name) = lower(name)
                    /\ p.owner_id = owner_id
                    /\ p.species_id = species_id

create_pet(req) ==
    LET a == token_required(req.headers)
        data == req.data
        missing == FirstMissing(data, pet_required)
    IN
    IF ~a.ok THEN Denied("create_pet", req, a)
    ELSE IF missing # {} THEN Answer("create_pet", req, 400, "field is required", missing)
    ELSE IF PetExists(pet, data.name, data.owner_id, data.species_id)
    THEN Answer("create_pet", req, 409, "Pet already exists", {data.name})
    ELSE LET row == [id |-> NextId(pet), name |-> data.name, owner_id |-> data.owner_id,
                     species_id |-> data.species_id, age |-> data.age]
         IN  IF ~ForeignKeysOk(pet \cup {row}, owner, species)
            THEN Answer("create_pet", req, 500, "IntegrityError", <<>>)
            ELSE /\ row.id <= MaxId
                 /\ pet' = pet \cup {row}
                 /\ resp' = Serialized("create_pet", req, 201, Pet_to_dict(row, species),
                                       Pet_to_dict(row, species) = {})
                 /\ UNCHANGED <<user, owner, species, now, issued, pc>>

update_pet(req) ==
    LET a == token_required(req.headers)
        data == req.data
        found == {p \in pet : p.id = req.id}
        missing == FirstMissing(data, pet_required)
    IN
    IF ~a.ok THEN Denied("update_pet", req, a)
    ELSE IF found = {} THEN Answer("update_pet", req, 404, "Pet not found", <<>>)
    ELSE IF missing # {} THEN Answer("update_pet", req, 400, "field is required", missing)
    ELSE LET old == CHOOSE p \in found : TRUE
             row == SetAttrs(old, data)
             pets == (pet \ {old}) \cup {row}
         IN  IF ~PrimaryKeyOk(pets) \/ Cardinality(pets) # Cardinality(pet)
               \/ ~ForeignKeysOk(pets, owner, species)
            THEN Answer("update_pet", req, 500, "IntegrityError", <<>>)
            ELSE /\ pet' = pets
                 /\ resp' = Serialized("update_pet", req, 200, Pet_to_dict(row, species),
                                       Pet_to_dict(row, species) = {})
                 /\ UNCHANGED <<user, owner, species, now, issued, pc>>

delete_pet(req) ==
    LET a == token_required(req.headers)
        found == {p \in pet : p.id = req.id}
    IN
    IF ~a.ok THEN Denied("delete_pet", req, a)
    ELSE IF found = {} THEN Answer("delete_pet", req, 404, "pet not found", <<>>)
    ELSE /\ pet' = pet \ found
         /\ resp' = Reply("delete_pet", req, 200, "pet deleted", <<>>, TRUE, TRUE)
         /\ UNCHANGED <<user, owner, species, now, issued, pc>>

(***************************************************************************)
(* Owners                                                                  *)
(***************************************************************************)
owner_required == <<"first_name", "last_name", "phone", "mobile", "email">>

get_owners(req) ==
    LET a == token_required(req.headers) IN
    IF ~a.ok THEN Denied("get_owners", req, a)
    ELSE /\ resp' = Serialized("get_owners", req, 200,
                               UNION {Owner_to_dict(o, pet, species) : o \in owner},
                               \E o \in owner : Owner_to_dict(o, pet, species) = {})
         /\ UNCHANGED <<store, now, issued, pc>>

get_owner(req) ==
    LET a == token_required(req.headers)
        found == {o \in owner : o.id = req.id}
    IN
    IF ~a.ok THEN Denied("get_owner", req, a)
    ELSE IF found = {} THEN Answer("get_owner", req, 404, "Owner not found", <<>>)
    ELSE /\ resp' = Serialized("get_owner", req, 200,
                               UNION {Owner_to_dict(o, pet, species) : o \in found},
                               \E o \in found : Owner_to_dict(o, pet, species) = {})
         /\ UNCHANGED <<store, now, issued, pc>>

create_owner(req) ==
    LET a == token_required(req.headers)
        data == req.data
        missing == FirstMissing(data, owner_required)
    IN
    IF ~a.ok THEN Denied("create_owner", req, a)
    ELSE IF missing # {} THEN Answer("create_owner", req, 400, "field is required", missing)
    ELSE IF \E o \in owner : lower(o.email) = lower(data.email)
    THEN Answer("create_owner", req, 409, "owner already exists", {data.email})
    ELSE LET row == [id |-> NextId(owner), first_name |-> data.first_name,
                     last_name |-> data.last_name, email |-> data.email,
                     phone |-> data.phone, mobile |-> data.mobile]
         IN IF ~OwnerUniqueOk(owner \cup {row})
            THEN Answer("create_owner", req, 500, "IntegrityError", <<>>)
            ELSE /\ row.id <= MaxId
                 /\ owner' = owner \cup {row}
                 /\ resp' = Serialized("create_owner", req, 201,
                                       Owner_to_dict(row, pet, species),
                                       Owner_to_dict(row, pet, species) = {})
                 /\ UNCHANGED <<user, species, pet, now, issued, pc>>

\* Lines 235-238: every key of the payload is set on the owner, the columns
\* and the pets relationship alike, and the session is committed.  Setting
\* pets to the empty list takes the owner's pets away from it.
update_owner(req) ==
    LET a == token_required(req.headers)
        data == req.data
        found == {o \in owner : o.id = req.id}
        missing == FirstMissing(data, owner_required)
    IN
    IF ~a.ok THEN Denied("update_owner", req, a)
    ELSE IF found = {} THEN Answer("update_owner", req, 404, "owner does not exist", <<>>)
    ELSE IF missing # {} THEN Answer("update_owner", req, 400, "field is required", missing)
    ELSE LET old == CHOOSE o \in found : TRUE
             row == SetAttrs(old, data)
             owners == (owner \ {old}) \cup {row}
             pets == IF "pets" \in DOMAIN data THEN NullifyOwner(pet, old.id) ELSE pet
         IN  IF "pets" \in DOMAIN data /\ data.pets # <<>>
            THEN \* a JSON value is not a Pet: the assignment raises
                 Answer("update_owner", req, 500, "AttributeError", <<>>)
            ELSE
            IF \/ ~PrimaryKeyOk(owners)
               \/ Cardinality(owners) # Cardinality(owner)
               \/ ~OwnerUniqueOk(owners)
               \/ (row.id # old.id /\ ~ForeignKeysOk(pets, owners, species))
            THEN Answer("update_owner", req, 500, "IntegrityError", <<>>)
            ELSE /\ owner' = owners
                 /\ pet' = pets
                 /\ resp' = Serialized("update_owner", req, 200,
                                       Owner_to_dict(row, pets, species),
                                       Owner_to_dict(row, pets, species) = {})
                 /\ UNCHANGED <<user, species, now, issued, pc>>

delete_owner(req) ==
    LET a == token_required(req.headers)
        found == {o \in owner : o.id = req.id}
    IN
    IF ~a.ok THEN Denied("delete_owner", req, a)
    ELSE IF found = {} THEN Answer("delete_owner", req, 404, "owner does not exist", <<>>)
    ELSE /\ owner' = owner \ found
         /\ pet' = NullifyOwner(pet, req.id)
         /\ resp' = Reply("delete_owner", req, 200, "owner deleted successfully", <<>>, TRUE, TRUE)
         /\ UNCHANGED <<user, species, now, issued, pc>>

(***************************************************************************)
(* Species                                                                 *)
(***************************************************************************)
get_all_species(req) ==
    LET a == token_required(req.headers) IN
    IF ~a.ok THEN Denied("get_all_species", req, a)
    ELSE Answer("get_all_species", req, 200, "", {Species_to_dict(sp) : sp \in species})

get_one_species(req) ==
    LET a == token_required(req.headers)
        found == {sp \in species : sp.id = req.id}
    IN
    IF ~a.ok THEN Denied("get_one_species", req, a)
    ELSE IF found = {} THEN Answer("get_one_species", req, 404, "Species not found", <<>>)
    ELSE Answer("get_one_species", req, 200, "", {Species_to_dict(sp) : sp \in found})

create_species(req) ==
    LET a == token_required(req.headers)
        data == req.data
    IN
    IF ~a.ok THEN Denied("create_species", req, a)
    ELSE IF "name" \notin DOMAIN data
    THEN Answer("create_species", req, 400, "Field \"name\" is required", <<>>)
    ELSE IF \E sp \in species : lower(sp.name) = lower(data.name)
    THEN Answer("create_species", req, 409, "Species already exists", <<>>)
    ELSE LET row == [id |-> NextId(species), name |-> data.name] IN
         IF ~SpeciesUniqueOk(species \cup {row})
         THEN Answer("create_species", req, 500, "IntegrityError", <<>>)
         ELSE /\ row.id <= MaxId
              /\ species' = species \cup {row}
              /\ resp' = Reply("create_species", req, 201, "", {Species_to_dict(row)}, TRUE, TRUE)
              /\ UNCHANGED <<user, owner, pet, now, issued, pc>>

\* Lines 307-317: the name is required; the row is looked up and its name
\* set without a check that the lookup found one.
update_species(req) ==
    LET a == token_required(req.headers)
        data == req.data
        found == {sp \in species : sp.id = req.id}
    IN
    IF ~a.ok THEN Denied("update_species", req, a)
    ELSE IF "name" \notin DOMAIN data
    THEN Answer("update_species", req, 400, "Field \"name\" is required", <<>>)
    ELSE IF found = {}
    THEN \* None.name = ... raises
         Answer("update_species", req, 500, "AttributeError", <<>>)
    ELSE LET old == CHOOSE sp \in found : TRUE
             row == [old EXCEPT !.name = data.name]
             spp == (species \ {old}) \cup {row}
         IN IF ~SpeciesUniqueOk(spp)
            THEN Answer("update_species", req, 500, "IntegrityError", <<>>)
            ELSE /\ species' = spp
                 /\ resp' = Reply("update_species", req, 200, "", {Species_to_dict(row)}, TRUE, TRUE)
                 /\ UNCHANGED <<user, owner, pet, now, issued, pc>>

delete_species(req) ==
    LET a == token_required(req.headers)
        found == {sp \in species : sp.id = req.id}
    IN
    IF ~a.ok THEN Denied("delete_species", req, a)
    ELSE IF found = {} THEN Answer("delete_species", req, 404, "Species not found", <<>>)
    ELSE /\ species' = species \ found
         /\ pet' = NullifySpecies(pet, req.id)
         /\ resp' = Reply("delete_species", req, 200, "Species deleted", <<>>, TRUE, TRUE)
         /\ UNCHANGED <<user, owner, now, issued, pc>>

(***************************************************************************)
(* The clock.                                                              *)
(***************************************************************************)
Tick == /\ \E t \in TimePoints : t > now /\ now' = t
        /\ UNCHANGED <<store, issued, pc, resp>>

(***************************************************************************)
(* The state after construction: empty tables, no token handed out.        *)
(***************************************************************************)
Procs == {1, 2}

NoReq == [id |-> NULL, data |-> <<>>, headers |-> <<>>]

Init ==
    /\ user = {}
    /\ owner = {}
    /\ species = {}
    /\ pet = {}
    /\ now = 0
    /\ issued = {}
    /\ pc = [p \in Procs |-> [req |-> NoReq, status |-> 0, at |-> "idle"]]
    /\ resp = [op |-> "none", req |-> NoReq, status |-> 0, detail |-> "",
               body |-> <<>>, ran |-> FALSE, read |-> FALSE, at |-> 0]

(***************************************************************************)
(* Requests a client can send.                                             *)
(***************************************************************************)
\* The payloads carrying key k with a value of Vs, or not carrying it.
Opt(k, Vs) == {<<>>} \cup {[x \in {k} |-> v] : v \in Vs}

Request(h, d, i) == [id |-> i, data |-> d, headers |-> h]

Bearer(tok) == [Authorization |-> prefix \o <<Jwt(tok)>>]

\* Tokens a client can present: those login handed out, one of them with its
\* expiry pushed back (the signature no longer matches), and one signed with
\* another key.
Presentable ==
    {i.token : i \in issued}
    \cup {[i.token EXCEPT !.exp = @ + 1] : i \in issued}
    \cup {jwt_encode(1, 2 * LifetimeTicks, "another key")}

AnyHeaders ==
    {<<>>,
     [Authorization |-> <<>>],
     [Authorization |-> Str(<<"Bearer">>)],
     [Authorization |-> prefix],
     [Authorization |-> Str(<<"Bearer", " ", "garbage">>)]}
    \cup {Bearer(t) : t \in Presentable}
    \cup {[Authorization |-> Str(<<"Basic", " ">>) \o <<Jwt(i.token)>>] : i \in issued}
    \cup {[Authorization |-> Str(<<"Bearer", " ", " ">>) \o <<Jwt(i.token)>>] : i \in issued}
    \cup {[Authorization |-> prefix \o <<Jwt(i.token)>> \o Str(<<" ", "junk">>)] : i \in issued}

Emails == {"a@x", "b@x"}
Passwords == {"pw"}

SignupPayloads ==
    {e @@ p @@ f : e \in Opt("email", Emails \cup {""}),
                   p \in Opt("password", Passwords \cup {""}),
                   f \in Opt("first_name", {"Ann"})}

LoginPayloads ==
    {e @@ p : e \in Opt("email", Emails \cup {""}),
              p \in Opt("password", Passwords \cup {"", "wrong"})}

(***************************************************************************)
(* Authentication: signup, login, a protected route, and the clock.        *)
(***************************************************************************)
NextAuth ==
    \/ \E d \in SignupPayloads : signup(Request(<<>>, d, NULL))
    \/ \E d \in LoginPayloads : login(Request(<<>>, d, NULL))
    \/ \E h \in AnyHeaders : profile(Request(h, <<>>, NULL))
    \/ Tick

SpecAuth == Init /\ [][NextAuth]_vars

(***************************************************************************)
(* The clinic's routes, called by a client that signed up and logged in.   *)
(***************************************************************************)
ClinicUser == [password |-> "pw", first_name |-> "Ann", email |-> "a@x"]

ClinicHeaders == {<<>>} \cup {Bearer(i.token) : i \in issued}

PathIds == 1 .. MaxId + 1

Enter ==
    \/ signup(Request(<<>>, ClinicUser, NULL))
    \/ login(Request(<<>>, [password |-> "pw", email |-> "a@x"], NULL))

Rex == Str(<<"R", "e", "x">>)
REX == Str(<<"R", "E", "X">>)
Cat == Str(<<"C", "a", "t">>)
cat == Str(<<"c", "a", "t">>)
Emu == Str(<<"E", "m", "u">>)
AnnAt == Str(<<"A", "@", "x">>)
annAt == Str(<<"a", "@", "x">>)

\* Complete payloads, and one that lacks required fields.
PetPayloads(names, speciesIds) ==
    {[name |-> n, owner_id |-> 1, species_id |-> sp, age |-> 3] :
        n \in names, sp \in speciesIds}
    \cup {[name |-> Rex, owner_id |-> 1]}

SpeciesPayloads(names) == Opt("name", names)

OwnerPayloads(firstNames, emails, extra) ==
    {[first_name |-> f, last_name |-> "Lee", email |-> e,
      phone |-> "555", mobile |-> "777"] @@ x : f \in firstNames, e \in emails, x \in extra}
    \cup {[first_name |-> "Ann", last_name |-> "Lee"]}

\* Pets, with an owner and species to belong to.
NextPets ==
    \/ Enter
    \/ \E h \in ClinicHeaders :
         \/ \E d \in OwnerPayloads({"Ann"}, {AnnAt}, {<<>>}) : create_owner(Request(h, d, NULL))
         \/ \E d \in SpeciesPayloads({Cat, Emu}) : create_species(Request(h, d, NULL))
         \/ get_pets(Request(h, <<>>, NULL))
         \/ \E i \in PathIds : get_pet(Request(h, <<>>, i))
         \/ \E d \in PetPayloads({Rex, REX}, {1, 2}) : create_pet(Request(h, d, NULL))
         \/ \E i \in PathIds : \E d \in PetPayloads({Rex, REX}, {1, 2}) :
                update_pet(Request(h, d, i))
         \/ \E i \in PathIds : delete_pet(Request(h, <<>>, i))

SpecPets == Init /\ [][NextPets]_vars

\* Species alone.
NextSpecies ==
    \/ Enter
    \/ \E h \in ClinicHeaders :
         \/ get_all_species(Request(h, <<>>, NULL))
         \/ \E i \in PathIds : get_one_species(Request(h, <<>>, i))
         \/ \E d \in SpeciesPayloads({Cat, cat, Emu}) : create_species(Request(h, d, NULL))
         \/ \E i \in PathIds : \E d \in SpeciesPayloads({Cat, cat, Emu}) :
                update_species(Request(h, d, i))
         \/ \E i \in PathIds : delete_species(Request(h, <<>>, i))

SpecSpecies == Init /\ [][NextSpecies]_vars

\* Pets and the species they belong to.
NextPetSpecies ==
    \/ Enter
    \/ \E h \in ClinicHeaders :
         \/ \E d \in OwnerPayloads({"Ann"}, {AnnAt}, {<<>>}) : create_owner(Request(h, d, NULL))
         \/ get_pets(Request(h, <<>>, NULL))
         \/ \E d \in PetPayloads({Rex}, {1, 2}) : create_pet(Request(h, d, NULL))
         \/ \E i \in PathIds : \E d \in PetPayloads({Rex}, {1, 2}) :
                update_pet(Request(h, d, i))
         \/ \E i \in PathIds : delete_pet(Request(h, <<>>, i))
         \/ \E d \in SpeciesPayloads({Cat, Emu}) : create_species(Request(h, d, NULL))
         \/ \E i \in PathIds : \E d \in SpeciesPayloads({Cat, Emu}) :
                update_species(Request(h, d, i))
         \/ \E i \in PathIds : delete_species(Request(h, <<>>, i))

SpecPetSpecies == Init /\ [][NextPetSpecies]_vars

\* Owners and their pets.
OwnerExtras == {<<>>, [id |-> MaxId + 1], [pets |-> <<>>], [nickname |-> "A"]}

NextOwners ==
    \/ Enter
    \/ \E h \in ClinicHeaders :
         \/ get_owners(Request(h, <<>>, NULL))
         \/ \E i \in PathIds : get_owner(Request(h, <<>>, i))
         \/ \E d \in OwnerPayloads({"Ann"}, {AnnAt, annAt}, {<<>>}) :
                create_owner(Request(h, d, NULL))
         \/ \E i \in PathIds : \E d \in OwnerPayloads({"Ann", "Bob"}, {AnnAt}, OwnerExtras) :
                update_owner(Request(h, d, i))
         \/ \E i \in PathIds : delete_owner(Request(h, <<>>, i))
         \/ \E d \in SpeciesPayloads({Cat}) : create_species(Request(h, d, NULL))
         \/ \E d \in PetPayloads({Rex}, {1}) : create_pet(Request(h, d, NULL))

SpecOwners == Init /\ [][NextOwners]_vars

\* The three update routes, over entities created before.
NextUpdates ==
    \/ Enter
    \/ \E h \in ClinicHeaders :
         \/ \E d \in OwnerPayloads({"Ann"}, {AnnAt}, {<<>>}) : create_owner(Request(h, d, NULL))
         \/ \E d \in SpeciesPayloads({Cat}) : create_species(Request(h, d, NULL))
         \/ \E d \in PetPayloads({Rex}, {1}) : create_pet(Request(h, d, NULL))
         \/ \E i \in PathIds : \E d \in OwnerPayloads({"Bob"}, {AnnAt}, {<<>>}) :
                update_owner(Request(h, d, i))
         \/ \E i \in PathIds : \E d \in PetPayloads({REX}, {1}) : update_pet(Request(h, d, i))
         \/ \E i \in PathIds : \E d \in SpeciesPayloads({Emu}) : update_species(Request(h, d, i))

SpecUpdates == Init /\ [][NextUpdates]_vars

(***************************************************************************)
(* Bearer-protected routes that read and write the store, called with any  *)
(* header while time passes.                                               *)
(***************************************************************************)
NextGate ==
    \/ Enter
    \/ Tick
    \/ \E h \in AnyHeaders :
         \/ profile(Request(h, <<>>, NULL))
         \/ get_all_species(Request(h, <<>>, NULL))
         \/ create_species(Request(h, [name |-> Cat], NULL))
         \/ update_species(Request(h, [name |-> cat], 1))
         \/ delete_species(Request(h, <<>>, 1))

SpecGate == Init /\ [][NextGate]_vars

(***************************************************************************)
(* Concurrent signups.                                                     *)
(***************************************************************************)
NextRace ==
    \/ \E p \in Procs : \E d \in SignupPayloads : signup_begin(p, Request(<<>>, d, NULL))
    \/ \E p \in Procs : signup_commit(p)

SpecRace == Init /\ [][NextRace]_vars

(***************************************************************************)
(* Properties of authentication.                                           *)
(***************************************************************************)
ProtectedOps ==
    {"profile", "get_pets", "get_pet", "create_pet", "update_pet", "delete_pet",
     "get_owners", "get_owner", "create_owner", "update_owner", "delete_owner",
     "get_all_species", "get_one_species", "create_species", "update_species",
     "delete_species"}

\* What follows the "Bearer " prefix, up to the next space or the end.
RECURSIVE UpToSpace(_)
UpToSpace(s) ==
    IF s = <<>> \/ Head(s) = Ch(" ") THEN <<>> ELSE <<Head(s)>> \o UpToSpace(Tail(s))

PresentedToken(headers) ==
    UpToSpace(SubSeq(headers.Authorization, Len(prefix) + 1, Len(headers.Authorization)))

\* The token's signature is the secret key's over its claims and its expiry
\* lies after t.
Verified(tok, t) ==
    /\ tok.sig = Sign(SECRET_KEY, tok.sub, tok.exp)
    /\ t < tok.exp * TicksPerSec

\* The header starts with "Bearer ", a non-empty token follows, and the token
\* passes signature and expiry verification at t.
ValidHeader(headers, t) ==
    /\ "Authorization" \in DOMAIN headers
    /\ startswith(headers.Authorization, prefix)
    /\ LET tk == PresentedToken(headers) IN
         /\ tk # <<>>
         /\ Len(tk) = 1
         /\ "jwt" \in DOMAIN tk[1]
         /\ Verified(tk[1].jwt, t)

\* C3: on every bearer-protected route the wrapped handler runs, and the
\* store is read or written, only if the request carries a valid header; in
\* every other case the response is 401 and the store is neither read nor
\* modified.
C3_AuthGate ==
    [][resp'.op \in ProtectedOps /\ now' = now =>
         LET valid == ValidHeader(resp'.req.headers, now) IN
         /\ (resp'.ran \/ resp'.read \/ store' # store) => valid
         /\ ~valid => /\ resp'.status = 401
                      /\ ~resp'.ran
                      /\ ~resp'.read
                      /\ store' = store]_vars

\* A protected request with a well-formed header whose token has expired was
\* turned away, and another state shows a handler that ran.
C3_Witness ==
    /\ resp.op \in ProtectedOps
    /\ resp.status = 401
    /\ resp.detail = "Token expired"
    /\ ~resp.read
    /\ \E i \in issued : resp.req.headers = Bearer(i.token)

\* The instant a token handed out at instant `at` stops being accepted: the
\* whole second of `at`, plus the lifetime.
ExpiryOf(at) == (at \div TicksPerSec) * TicksPerSec + LifetimeTicks

\* A request to a protected route presenting the token handed out as i.
Presents(i) ==
    /\ resp.op \in ProtectedOps
    /\ resp.req.headers = Bearer(i.token)
    /\ i.at <= resp.at

\* C4 as stated: a token issued by login at time T is accepted at every time
\* t with T <= t < T + 30 min and rejected with 401 "Token expired" at every
\* t >= T + 30 min.
C4_Original ==
    \A i \in issued :
        Presents(i) =>
            /\ resp.at < i.at + LifetimeTicks => resp.ran
            /\ resp.at >= i.at + LifetimeTicks =>
                   resp.status = 401 /\ resp.detail = "Token expired"

\* C4 as amended: a token issued by login at time T is accepted at every time
\* t with T <= t < S + 30 min and rejected with 401 "Token expired" at every
\* t >= S + 30 min, where S is T cut to its whole second.
C4_Expiry ==
    \A i \in issued :
        Presents(i) =>
            /\ resp.at < ExpiryOf(i.at) => resp.ran
            /\ resp.at >= ExpiryOf(i.at) =>
                   resp.status = 401 /\ resp.detail = "Token expired"

\* A token handed out in the middle of a second was rejected less than 30
\* minutes later.
C4_Witness ==
    \E i \in issued :
        /\ Presents(i)
        /\ i.at % TicksPerSec # 0
        /\ resp.at >= ExpiryOf(i.at)
        /\ resp.at < i.at + LifetimeTicks
        /\ resp.status = 401
        /\ resp.detail = "Token expired"

\* C5: for every signup accepted with 201 for an email not registered before,
\* a later login with the same email and password returns a token, and that
\* token, presented before it expires, resolves the acting user to the User
\* that signup created.
C5_SignupThenLogin ==
    /\ \A u \in user :
           /\ resp.op = "login"
           /\ Get(resp.req.data, "email") = {u.email}
           /\ \E pw \in Get(resp.req.data, "password") : check_password_hash(u.password, pw)
           => /\ resp.status = 200
              /\ resp.body.token.sub = u.id
    /\ \A i \in issued :
           /\ resp.op = "profile"
           /\ Presents(i)
           /\ resp.at < ExpiryOf(i.at)
           => /\ resp.status = 200
              /\ \E u \in user : u.id = i.token.sub /\ resp.body.email = u.email

\* A login request with a non-empty email and a non-empty password that
\* names no registered email, or a registered one with a wrong password.
BadCredentials(data) ==
    /\ Truthy(data, "email")
    /\ Truthy(data, "password")
    /\ \/ \A u \in user : u.email # data.email
       \/ \E u \in user : u.email = data.email /\ ~check_password_hash(u.password, data.password)

C9_UniqueEmail ==
    /\ \A u1, u2 \in user : u1.email = u2.email => u1 = u2
    /\ \A p, q \in Procs :
           /\ p # q
           /\ pc[p].at = "done" /\ pc[p].status = 201
           /\ pc[q].at = "done" /\ pc[q].status = 201
           => pc[p].req.data.email # pc[q].req.data.email

\* Two signups for one email both passed the existence check; one stored its
\* User and the other was refused by the store.
C9_Witness ==
    \E p, q \in Procs :
        /\ pc[p].at = "done" /\ pc[p].status = 201
        /\ pc[q].at = "done" /\ pc[q].status = 500
        /\ Get(pc[q].req.data, "first_name") # {}
        /\ "password" \in DOMAIN pc[q].req.data
        /\ pc[p].req.data.email = pc[q].req.data.email
        /\ Cardinality({u \in user : u.email = pc[p].req.data.email}) = 1

(***************************************************************************)
(* Properties of the clinic's routes.                                      *)
(***************************************************************************)
\* C1: after any sequence of authenticated create_pet, update_pet and
\* delete_pet requests, no two stored Pets have the same (lower-cased name,
\* owner_id, species_id) triple.
C1_PetTripleUnique ==
    \A p1, p2 \in pet :
        /\ lower(p1.name) = lower(p2.name)
        /\ p1.owner_id = p2.owner_id
        /\ p1.species_id = p2.species_id
        => p1 = p2

\* C2: after any sequence of authenticated create_species, update_species
\* and delete_species requests, no two stored Species have names that are
\* equal when compared case-insensitively.
C2_SpeciesNameUnique ==
    \A s1, s2 \in species : lower(s1.name) = lower(s2.name) => s1 = s2

\* The table an update route looks its entity up in.
TableOf(op) ==
    CASE op = "update_owner" -> owner
      [] op = "update_pet" -> pet
      [] op = "update_species" -> species

\* C7: for each of Owner, Pet and Species, an authenticated update request
\* whose id matches no stored entity returns 404 and leaves the store
\* unchanged, whatever fields the payload carries.
C7_UpdateMissingIs404 ==
    [][/\ resp'.op \in {"update_owner", "update_pet", "update_species"}
       /\ ValidHeader(resp'.req.headers, now)
       /\ \A r \in TableOf(resp'.op) : r.id # resp'.req.id
       => /\ resp'.status = 404
          /\ store' = store]_vars

\* C8: an authenticated update_owner request on an existing Owner whose
\* payload carries all five required fields changes only those five fields of
\* that Owner: its id and its pets, and every other Owner and Pet, are the
\* same after the update as before, for any payload, extra keys included.
C8_UpdateOwnerFrame ==
    [][/\ resp'.op = "update_owner"
       /\ ValidHeader(resp'.req.headers, now)
       /\ \E o \in owner : o.id = resp'.req.id
       /\ FirstMissing(resp'.req.data, owner_required) = {}
       => /\ \E o \in owner' : o.id = resp'.req.id
          /\ {o \in owner' : o.id # resp'.req.id} = {o \in owner : o.id # resp'.req.id}
          /\ pet' = pet]_vars

\* C10: after any sequence of authenticated create, update and delete
\* requests on Pets and Species, every stored Pet's species_id refers to a
\* stored Species, so that serializing any stored Pet succeeds and
\* GET /pets/ returns 200.
C10_PetSpeciesStored ==
    /\ \A p \in pet : \E sp \in species : sp.id = p.species_id
    /\ resp.op = "get_pets" /\ resp.ran => resp.status = 200

====
